---- MODULE Spec2Model ----
(***************************************************************************)
(* Model of the staged compression engine of app.py:                      *)
(* perform_performance_calculation (lines 118-189) and clamp (115-116).   *)
(*                                                                         *)
(* Python floats are modelled as binary floating-point numbers with a     *)
(* MantBits-bit significand, round-to-nearest, ties-to-even, and an       *)
(* unbounded exponent (no overflow, underflow, infinity or NaN).  A float *)
(* is a record [m, e] standing for m * 2^e, with m = 0 or                 *)
(* 2^(MantBits-1) <= |m| < 2^MantBits.  Every arithmetic operator of the  *)
(* source is one rounding operation of the model, in the source's order.  *)
(***************************************************************************)
EXTENDS Integers, Sequences, FiniteSets, TLC

\* Significand width of the modelled float (a Python float has 53 bits).
MantBits == 7

\* Largest stage count the caller passes.
MaxStages == 3

\* Number of calls the caller makes in a row.
MaxCalls == 3

\* Largest number of cylinders entered in the configuration form.
MaxCilindros == 3

----------------------------------------------------------------------------
\* Floating-point arithmetic.  An operator binds each operand it reads more than
\* once by  CHOOSE r \in {e : x \in {a}} : TRUE , which is e with a for x.

Abs(i) == IF i < 0 THEN -i ELSE i

Pow2(k) == IF k <= 0 THEN 1 ELSE 2 ^ k

\* The number of bits of a, for 0 <= a < 2^31.
BitLen4(a) == IF a >= 8 THEN 4 ELSE IF a >= 4 THEN 3 ELSE IF a >= 2 THEN 2 ELSE a
BitLen8(a) == IF a >= 16 THEN 4 + BitLen4(a \div 16) ELSE BitLen4(a)
BitLen16(a) == IF a >= 256 THEN 8 + BitLen8(a \div 256) ELSE BitLen8(a)
BitLen(a) == IF a >= 65536 THEN 16 + BitLen16(a \div 65536) ELSE BitLen16(a)

RECURSIVE IPow(_, _)
IPow(b, k) == IF k <= 0 THEN 1 ELSE b * IPow(b, k - 1)

Zero == [m |-> 0, e |-> 0]

\* a * 2^E for a >= 2^p of nb bits, to p bits (ties to even).
RoundDown(a, E, p, nb) ==
    CHOOSE f \in
        {IF q2 = Pow2(p) THEN [m |-> Pow2(p - 1), e |-> E + (nb - p) + 1]
                         ELSE [m |-> q2, e |-> E + (nb - p)] :
         q2 \in {IF \/ a % Pow2(nb - p) > Pow2(nb - p - 1)
                    \/ (a % Pow2(nb - p) = Pow2(nb - p - 1)
                        /\ (a \div Pow2(nb - p)) % 2 = 1)
                 THEN (a \div Pow2(nb - p)) + 1
                 ELSE a \div Pow2(nb - p)}} : TRUE

\* The p-bit float nearest to M * 2^E (ties to even).
RoundP(M, E, p) ==
    CHOOSE f \in
        {IF a = 0 THEN Zero
         ELSE CHOOSE g \in
                 {IF nb <= p
                  THEN [m |-> a * Pow2(p - nb), e |-> E - (p - nb)]
                  ELSE LET d == RoundDown(Abs(a), E, p, nb)
                       IN  [m |-> IF a < 0 THEN -d.m ELSE d.m, e |-> d.e] :
                  nb \in {BitLen(Abs(a))}} : TRUE :
         a \in {M}} : TRUE

\* The float nearest to M * 2^E.
Round(M, E) == RoundP(M, E, MantBits)

\* float(i) for a Python int i.
IntF(i) == Round(i, 0)

FNeg(a) == CHOOSE r \in {[m |-> -x.m, e |-> x.e] : x \in {a}} : TRUE

FMul(a, b) ==
    CHOOSE r \in {Round(x.m * y.m, x.e + y.e) : x \in {a}, y \in {b}} : TRUE

\* x / y for y # 0: the quotient to MantBits+2 bits and a sticky bit, rounded once.
FDiv(a, b) ==
    CHOOSE r \in
        {IF x.m = 0 THEN Zero
         ELSE LET sg == IF (x.m < 0) = (y.m < 0) THEN 1 ELSE -1
                  num == Abs(x.m) * Pow2(MantBits + 1)
                  q == num \div Abs(y.m)
                  st == IF num % Abs(y.m) = 0 THEN 0 ELSE 1
              IN  Round(sg * (2 * q + st), x.e - y.e - MantBits - 2) :
         x \in {a}, y \in {b}} : TRUE

\* x + y: exact sum rounded once; an addend below 1/8 ulp of the other is absorbed.
FAdd(a, b) ==
    CHOOSE r \in
        {IF x.m = 0 THEN y
         ELSE IF y.m = 0 THEN x
         ELSE IF x.e - y.e > MantBits + 2 THEN x
         ELSE IF y.e - x.e > MantBits + 2 THEN y
         ELSE LET e0 == IF x.e < y.e THEN x.e ELSE y.e
              IN  Round(x.m * Pow2(x.e - e0) + y.m * Pow2(y.e - e0), e0) :
         x \in {a}, y \in {b}} : TRUE

FSub(x, y) == FAdd(x, FNeg(y))

\* x < y (a difference never rounds to the other sign).
FLt(x, y) == FSub(x, y).m < 0

\* The literal num/den of the source (num >= 0, den > 0), as the nearest float.
Lit(num, den) ==
    LET k == IF MantBits + 2 + BitLen(den) > BitLen(num)
             THEN MantBits + 2 + BitLen(den) - BitLen(num) ELSE 0
        q == (num * Pow2(k)) \div den
        st == IF (num * Pow2(k)) % den = 0 THEN 0 ELSE 1
    IN  Round(2 * q + st, -k - 1)

\* Working precision inside pow, as in libm: the result is rounded once to a float.
WorkBits == 2 * MantBits

RECURSIVE ISqrtIn(_, _, _)
\* The largest s in lo..hi with s*s <= M (lo*lo <= M).
ISqrtIn(M, lo, hi) ==
    IF lo = hi THEN lo
    ELSE CHOOSE s \in
            {IF mid * mid <= M THEN ISqrtIn(M, mid, h) ELSE ISqrtIn(M, l, mid - 1) :
             mid \in {(lo + hi + 1) \div 2}, l \in {lo}, h \in {hi}} : TRUE

\* sqrt(x) for a p-bit x >= 0, correctly rounded to p bits.
SqrtP(a, p) ==
    CHOOSE r \in
        {IF x.m = 0 THEN Zero
         ELSE CHOOSE v \in
                 {CHOOSE w \in
                     {RoundP(2 * s + (IF s * s = M THEN 0 ELSE 1),
                             ((x.e - t) \div 2) - 1, p) :
                      s \in {ISqrtIn(M, Pow2(p), Pow2(p + 1) - 1)}} : TRUE :
                  t \in {IF (x.e - p - 1) % 2 = 0 THEN p + 1 ELSE p + 2},
                  M \in {x.m * Pow2(IF (x.e - p - 1) % 2 = 0 THEN p + 1 ELSE p + 2)}}
                 : TRUE :
         x \in {a}} : TRUE

RECURSIVE FracProd(_, _, _, _)
\* acc times the product of r ** (1 / 2^i) over the i >= 1 for which the binary
\* fraction of y has its bit of weight 1 / 2^(w + i - 1) set, to WorkBits bits.
FracProd(r, y, w, acc) ==
    IF w > -y.e THEN acc
    ELSE CHOOSE v \in
            {IF (y.m \div Pow2(-y.e - w)) % 2 = 1
             THEN FracProd(r2, y, w + 1, RoundP(ac.m * r2.m, ac.e + r2.e, WorkBits))
             ELSE FracProd(r2, y, w + 1, ac) :
             r2 \in {SqrtP(r, WorkBits)}, ac \in {acc}} : TRUE

\* x ** y for x >= 0 and y >= 0.  An integer y gives the correctly rounded power;
\* otherwise the integer part of y is taken by exact power and its binary fraction
\* by repeated square roots, in WorkBits bits, and the product is rounded once.
FPow(a, b) ==
    CHOOSE r \in
        {LET k == IF y.e >= 0 THEN y.m * Pow2(y.e) ELSE y.m \div Pow2(-y.e)
             whole == y.e >= 0 \/ y.m % Pow2(-y.e) = 0
             xk == IPow(x.m, k)
         IN  IF whole THEN Round(xk, x.e * k)
             ELSE LET w == FracProd(RoundP(x.m, x.e, WorkBits), y, 1,
                                    RoundP(xk, x.e * k, WorkBits))
                  IN  Round(w.m, w.e) :
         x \in {a}, y \in {b}} : TRUE

----------------------------------------------------------------------------
\* The float literals of perform_performance_calculation

gamma == Lit(130, 100)
cp == Lit(2, 1)
ETA_BASE == Lit(65, 100)
ETA_MAX == Lit(92, 100)
K_SACE == Lit(15, 100)
K_VVCP == Lit(5, 100)
K_CLEARANCE == Lit(10, 100)
HUNDRED == Lit(100, 1)
THOUSAND == Lit(1000, 1)
ETA_GUARD == Lit(1, 1000000)
PA_PER_BAR == Lit(100000, 1)
KELVIN_OFFSET == Lit(27315, 100)
BHP_PER_KW == Lit(134102, 100000)
ONE == Lit(1, 1)

----------------------------------------------------------------------------
\* The values the caller passes

\* Q_(magnitude, units)
Q_(mag, units) == [magnitude |-> mag, units |-> units]

Cilindro(num, stg, clearance, sace, vvcp) ==
    [cilindro_num |-> num, stage |-> stg, clearance_pct |-> IntF(clearance),
     SACE |-> IntF(sace), VVCP_pct |-> IntF(vvcp)]

Actuator(power) ==
    [power_kW |-> power, derate_percent |-> Zero, air_cooler_fraction |-> Lit(1, 10)]

\* <<clearance_pct, SACE, VVCP_pct>> of cylinder 1: a mid-range efficiency, and values
\* far outside 0..100 on either side.  Cylinder 2, when there, has the form's defaults.
CylParams == {<<5, 100, 5>>, <<5, 1000, 5>>, <<5, -100, 300>>}

CylinderLists ==
    {<<Cilindro(1, 1, t[1], t[2], t[3])>> : t \in CylParams}
    \cup {<<Cilindro(1, 1, t[1], t[2], t[3]), Cilindro(2, 2, 5, 5, 5)>> : t \in CylParams}

\* The lists a stage may be mapped to; cylinder 3 is in no cylinder list.
AssignLists == {<<>>, <<1, 2>>, <<2, 3>>}

\* stage_mapping: a dict from some of the stages 1, 2 to lists of cylinder numbers.
Mappings == UNION {[K -> AssignLists] : K \in SUBSET {1, 2}}

MassFlows == {IntF(0), IntF(10)}

\* <<inlet_pressure, inlet_temperature>>
Inlets == {<<Q_(IntF(1), "bar"), Q_(IntF(25), "degC")>>,
           <<Q_(IntF(300000), "Pa"), Q_(IntF(300), "K")>>,
           <<Q_(IntF(0), "bar"), Q_(IntF(25), "degC")>>}

StageCounts == -1 .. MaxStages
PressureRatios == {IntF(0), IntF(2), IntF(4)}

----------------------------------------------------------------------------
\* State

VARIABLES
    mass_flow, inlet_pressure, inlet_temperature, n_stages, PR_total,
    cilindros, stage_mapping, actuator,      \* the arguments (the caller's objects)
    pc,                                      \* "idle", "loop", "done" or "raised"
    m_dot, P_in, T_in, n, PR_base, stage_details, total_W_kW,
    cilindros_por_num, stage,
    clearance_avg, SACE_avg, VVCP_avg,       \* the locals of the call
    results,                                 \* <<>>, or <<the returned dict>>
    entry_args,                              \* the caller's objects as the call began
    calls,                                   \* the number of calls that have returned
    memo                                     \* <<>>, or <<an earlier call: args, result>>

args == <<mass_flow, inlet_pressure, inlet_temperature, n_stages, PR_total,
          cilindros, stage_mapping, actuator>>
locals == <<m_dot, P_in, T_in, n, PR_base, stage_details, total_W_kW,
            cilindros_por_num, stage, clearance_avg, SACE_avg, VVCP_avg>>
vars == <<args, pc, locals, results, entry_args, calls, memo>>

----------------------------------------------------------------------------
\* perform_performance_calculation

\* max(a, n): the ceiling b is forgotten
clamp_NoCeiling(x, a, b) == IF FLt(a, x) THEN x ELSE a

clamp(x, a, b) ==
    LET mn == IF FLt(b, x) THEN b ELSE x      \* min(n, b)
    IN  IF FLt(a, mn) THEN mn ELSE a          \* max(a, min(n, b))

\* quantity.to(ureg.Pa).magnitude
ToPa(q) == IF q.units = "Pa" THEN q.magnitude ELSE FMul(q.magnitude, PA_PER_BAR)

\* quantity.to(ureg.K).magnitude
ToK(q) == IF q.units = "K" THEN q.magnitude ELSE FAdd(q.magnitude, KELVIN_OFFSET)

\* quantity.to(ureg.degC).magnitude
ToDegC(q) == IF q.units = "degC" THEN q.magnitude ELSE FSub(q.magnitude, KELVIN_OFFSET)

\* n = max(n_stages, 1)
StageCount(ns) == IF ns > 1 THEN ns ELSE 1

\* PR_base = PR_total ** (1.0 / n)
PRBase(prt, cnt) == FPow(prt, FDiv(ONE, IntF(cnt)))

\* {c.cilindro_num: c for c in cilindros}: a later cylinder replaces an earlier one
\* of the same number.
CilindrosPorNum(cs) ==
    [k \in {cs[i].cilindro_num : i \in DOMAIN cs} |->
        cs[CHOOSE i \in DOMAIN cs :
              /\ cs[i].cilindro_num = k
              /\ \A j \in DOMAIN cs : cs[j].cilindro_num = k => j <= i]]

\* for stage in range(1, n): the last stage is left out
InRange_Exclusive(stg, cnt) == stg < cnt

\* for stage in range(1, n + 1)
InRange(stg, cnt) == stg <= cnt

\* P_in * (PR_base ** stage): the exponent is one too high
PInStage_OffByOne(p, prb, stg) == FMul(p, FPow(prb, IntF(stg)))

\* P_in * (PR_base ** (stage - 1))
PInStage(p, prb, stg) == FMul(p, FPow(prb, IntF(stg - 1)))

\* P_in_stage * PR_base
POutStage(pin, prb) == FMul(pin, prb)

\* stage_mapping.get(stage, [])
Assigned(mapping, stg) == IF stg \in DOMAIN mapping THEN mapping[stg] ELSE <<>>

\* ... for c in assigned if c in cilindros_por_num
Selected(assigned, cpn) == SelectSeq(assigned, LAMBDA c : c \in DOMAIN cpn)

\* cilindros_por_num[c] raises KeyError for a c that is no key.
KeyError(sel, cpn) == \E i \in DOMAIN sel : sel[i] \notin DOMAIN cpn

RECURSIVE FSum(_)
\* sum(...) of a sequence of floats: 0 + x1 + x2 + ...
FSum(xs) == IF xs = <<>> THEN Zero ELSE FAdd(FSum(SubSeq(xs, 1, Len(xs) - 1)), xs[Len(xs)])

\* the test left out: the averages are always taken
HasCylinders_Always(assigned) == TRUE

\* if assigned:
HasCylinders(assigned) == assigned # <<>>

\* sum(cilindros_por_num[c].<field> for c in assigned if c in cilindros_por_num)
\*   / len(assigned)
Average(field, assigned, cpn) ==
    LET sel == Selected(assigned, cpn)
    IN  FDiv(FSum([i \in DOMAIN sel |-> cpn[sel[i]][field]]), IntF(Len(assigned)))

\* The iteration raises: KeyError in cilindros_por_num[c], or ZeroDivisionError in
\* ... / len(assigned).
Raises(assigned, cpn) ==
    HasCylinders(assigned) /\ (KeyError(Selected(assigned, cpn), cpn) \/ Len(assigned) = 0)

\* 0.65 + 0.15 * (SACE_avg / 100.0) - 0.05 * (VVCP_avg / 100.0)
\*   + 0.10 * (clearance_avg / 100.0)
EtaRaw(sace, vvcp, clearance) ==
    FAdd(FSub(FAdd(ETA_BASE, FMul(K_SACE, FDiv(sace, HUNDRED))),
              FMul(K_VVCP, FDiv(vvcp, HUNDRED))),
         FMul(K_CLEARANCE, FDiv(clearance, HUNDRED)))

\* eta_isent = clamp(eta_isent, 0.65, 0.92)
EtaIsent(sace, vvcp, clearance) == clamp(EtaRaw(sace, vvcp, clearance), ETA_BASE, ETA_MAX)

\* T_in * (PR_base ** ((gamma - 1.0) / gamma))
TOutIsent(tin, prb) == FMul(tin, FPow(prb, FDiv(FSub(gamma, ONE), gamma)))

\* T_in + (T_out_isent - T_in) / max(eta_isent, 1e-6)
TOutActual(tin, tis, eta) ==
    FAdd(tin, FDiv(FSub(tis, tin), IF FLt(eta, ETA_GUARD) THEN ETA_GUARD ELSE eta))

\* m_dot * cp * delta_T / 1000.0
WStage(md, delta_T) == FDiv(FMul(FMul(md, cp), delta_T), THOUSAND)

\* total_W_kW = W_stage: the total is overwritten
Accumulate_Overwrite(total, W) == W

\* total_W_kW += W_stage
Accumulate(total, W) == FAdd(total, W)

\* T_in is not updated: every stage starts from the inlet temperature
NextTIn_NotCarried(tin, tout) == tin

\* T_in = T_out_actual
NextTIn(tin, tout) == tout

\* stage_details is a list that outlives the call (a module-level or default-argument
\* list): the entries of the earlier calls stay in it
NewList_Reused(old) == old

\* stage_details = []
NewList(old) == <<>>

ToBHP(kW) == FMul(kW, BHP_PER_KW)

\* The dict appended to stage_details.
StageEntry(stg, pin, pout, prb, tin, tout, eta, W) ==
    [stage |-> stg,
     P_in_bar |-> FDiv(pin, PA_PER_BAR),
     P_out_bar |-> FDiv(pout, PA_PER_BAR),
     PR |-> prb,
     T_in_C |-> FSub(tin, KELVIN_OFFSET),
     T_out_C |-> FSub(tout, KELVIN_OFFSET),
     isentropic_efficiency |-> eta,
     shaft_power_kW |-> W,
     shaft_power_BHP |-> ToBHP(W)]

\* n_stages as reported in the returned dict.
ReportedStages == n_stages

\* The returned dict.
ResultDict ==
    [mass_flow_kg_s |-> m_dot,
     inlet_pressure_bar |-> FDiv(P_in, PA_PER_BAR),
     inlet_temperature_C |-> ToDegC(inlet_temperature),
     n_stages |-> ReportedStages,
     total_shaft_power_kW |-> total_W_kW,
     total_shaft_power_BHP |-> ToBHP(total_W_kW),
     stage_details |-> stage_details]

\* Entry of the call: lines 128-141.
Call ==
    /\ pc = "idle"
    /\ pc' = "loop"
    /\ m_dot' = mass_flow
    /\ P_in' = ToPa(inlet_pressure)
    /\ T_in' = ToK(inlet_temperature)
    /\ n' = StageCount(n_stages)
    /\ PR_base' = PRBase(PR_total, StageCount(n_stages))
    /\ stage_details' = NewList(stage_details)
    /\ total_W_kW' = Zero
    /\ cilindros_por_num' = CilindrosPorNum(cilindros)
    /\ stage' = 1
    /\ clearance_avg' = Zero
    /\ SACE_avg' = Zero
    /\ VVCP_avg' = Zero
    /\ results' = <<>>
    /\ entry_args' = <<cilindros, stage_mapping, actuator>>
    /\ UNCHANGED <<args, calls, memo>>

\* One iteration of the loop: lines 143-179.
StageStep ==
    /\ pc = "loop"
    /\ InRange(stage, n)
    /\ \E P_in_stage \in {PInStage(P_in, PR_base, stage)},
          assigned \in {Assigned(stage_mapping, stage)} :
        IF Raises(assigned, cilindros_por_num)
        THEN /\ pc' = "raised"
             /\ UNCHANGED <<T_in, total_W_kW, stage_details, stage,
                            clearance_avg, SACE_avg, VVCP_avg>>
        ELSE /\ clearance_avg' = IF HasCylinders(assigned)
                                 THEN Average("clearance_pct", assigned, cilindros_por_num)
                                 ELSE Zero
             /\ SACE_avg' = IF HasCylinders(assigned)
                            THEN Average("SACE", assigned, cilindros_por_num)
                            ELSE Zero
             /\ VVCP_avg' = IF HasCylinders(assigned)
                            THEN Average("VVCP_pct", assigned, cilindros_por_num)
                            ELSE Zero
             /\ \E P_out_stage \in {POutStage(P_in_stage, PR_base)},
                   eta_isent \in {EtaIsent(SACE_avg', VVCP_avg', clearance_avg')},
                   T_out_isent \in {TOutIsent(T_in, PR_base)} :
                 \E T_out_actual \in {TOutActual(T_in, T_out_isent, eta_isent)} :
                 \E delta_T \in {FSub(T_out_actual, T_in)} :
                 \E W_stage \in {WStage(m_dot, delta_T)} :
                    /\ total_W_kW' = Accumulate(total_W_kW, W_stage)
                    /\ stage_details' = Append(stage_details,
                           StageEntry(stage, P_in_stage, P_out_stage, PR_base, T_in,
                                      T_out_actual, eta_isent, W_stage))
                    /\ T_in' = NextTIn(T_in, T_out_actual)
                    /\ stage' = stage + 1
                    /\ pc' = "loop"
    /\ UNCHANGED <<args, m_dot, P_in, n, PR_base, cilindros_por_num, results,
                   entry_args, calls, memo>>

\* The return statement: lines 181-189.
Return ==
    /\ pc = "loop"
    /\ ~InRange(stage, n)
    /\ results' = <<ResultDict>>
    /\ pc' = "done"
    /\ calls' = calls + 1
    /\ UNCHANGED <<args, locals, entry_args, memo>>

\* The state before a call, with the arguments drawn from the given sets.
InitWith(mfs, ins, nss, prs, cls, mps) ==
    /\ mass_flow \in mfs
    /\ \E io \in ins : inlet_pressure = io[1] /\ inlet_temperature = io[2]
    /\ n_stages \in nss
    /\ PR_total \in prs
    /\ cilindros \in cls
    /\ stage_mapping \in mps
    /\ actuator = Actuator(mass_flow)
    /\ pc = "idle"
    /\ m_dot = Zero
    /\ P_in = Zero
    /\ T_in = Zero
    /\ n = 0
    /\ PR_base = Zero
    /\ stage_details = <<>>
    /\ total_W_kW = Zero
    /\ cilindros_por_num = <<>>
    /\ stage = 0
    /\ clearance_avg = Zero
    /\ SACE_avg = Zero
    /\ VVCP_avg = Zero
    /\ results = <<>>
    /\ entry_args = <<>>
    /\ calls = 0
    /\ memo = <<>>

Init == InitWith(MassFlows, Inlets, StageCounts, PressureRatios, CylinderLists, Mappings)

Next == Call \/ StageStep \/ Return

Spec == Init /\ [][Next]_vars

----------------------------------------------------------------------------
\* Several calls in a row, from a caller that changes the arguments between them

PureStageCounts == {1, 2}
PurePressureRatios == {IntF(2), IntF(4)}
PureMappings == {<<>>, [k \in {1} |-> <<1, 2>>]}

\* The arguments of the calls.
ArgsWith(mfs, ins, nss, prs, cls, mps) ==
    {<<mf, io[1], io[2], ns, pr, cl, mp, Actuator(mf)>> :
        mf \in mfs, io \in ins, ns \in nss, pr \in prs, cl \in cls, mp \in mps}

PureArgs ==
    ArgsWith({IntF(10)}, {<<Q_(IntF(1), "bar"), Q_(IntF(25), "degC")>>}, PureStageCounts,
             PurePressureRatios, {<<Cilindro(1, 1, 5, 100, 5)>>}, PureMappings)

\* The caller builds the arguments of its next call (main, lines 396-408, on a rerun).
NewArgs ==
    /\ pc = "done"
    /\ calls < MaxCalls
    /\ pc' = "idle"
    /\ \E a \in PureArgs :
           /\ mass_flow' = a[1]
           /\ inlet_pressure' = a[2]
           /\ inlet_temperature' = a[3]
           /\ n_stages' = a[4]
           /\ PR_total' = a[5]
           /\ cilindros' = a[6]
           /\ stage_mapping' = a[7]
           /\ actuator' = a[8]
    /\ UNCHANGED <<locals, results, entry_args, calls, memo>>

\* Bookkeeping for the properties: keep one returned call, with its arguments.
Remember ==
    /\ pc = "done"
    /\ memo = <<>>
    /\ memo' = <<[a |-> args, r |-> results[1], at |-> calls]>>
    /\ UNCHANGED <<args, pc, locals, results, entry_args, calls>>

InitPure ==
    InitWith({IntF(10)}, {<<Q_(IntF(1), "bar"), Q_(IntF(25), "degC")>>}, PureStageCounts,
             PurePressureRatios, {<<Cilindro(1, 1, 5, 100, 5)>>}, PureMappings)

NextPure == Call \/ StageStep \/ Return \/ NewArgs \/ Remember

SpecPure == InitPure /\ [][NextPure]_vars

----------------------------------------------------------------------------
\* main: the configuration and performance forms, and the call they lead to

\* The stages that can be entered for a cylinder: one more than the stage counts, so
\* that a cylinder can sit on a stage that is not computed.
CylinderStages == 1 .. MaxStages + 1

\* cilindros = [Cilindro(**data) for data in cilindro_data]: cylinder i has number i,
\* the stage entered for it, and the form's 5.0 for the other fields.
FormCilindros(n_cilindros, stages) ==
    [i \in 1 .. n_cilindros |-> Cilindro(i, stages[i], 5, 5, 5)]

\* stage_mapping[key] = [num]: the list under the key is replaced
SetDefaultAppend_Overwrite(mapping, key, num) ==
    [k \in DOMAIN mapping \cup {key} |->
        IF k = key THEN <<num>> ELSE mapping[k]]

\* stage_mapping.setdefault(key, []).append(num)
SetDefaultAppend(mapping, key, num) ==
    [k \in DOMAIN mapping \cup {key} |->
        IF k = key
        THEN Append(IF key \in DOMAIN mapping THEN mapping[key] ELSE <<>>, num)
        ELSE mapping[k]]

RECURSIVE StageMapping(_)
\* stage_mapping = {}; for c in cilindros: stage_mapping.setdefault(...).append(...)
StageMapping(cs) ==
    IF cs = <<>> THEN <<>>
    ELSE CHOOSE r \in
            {SetDefaultAppend(before, cs[Len(cs)].stage, cs[Len(cs)].cilindro_num) :
             before \in {StageMapping(SubSeq(cs, 1, Len(cs) - 1))}} : TRUE

\* A run of main with the button pressed, up to the call: the forms are read, and the
\* cylinders, the stage mapping and the actuator are built (lines 363-409).
Main ==
    /\ pc = "main"
    /\ \E n_cilindros \in 1 .. MaxCilindros :
       \E stages \in [1 .. n_cilindros -> CylinderStages] :
           /\ cilindros' = FormCilindros(n_cilindros, stages)
           /\ stage_mapping' = StageMapping(cilindros')
    /\ mass_flow' = IntF(10)
    /\ inlet_pressure' = Q_(IntF(1), "bar")
    /\ inlet_temperature' = Q_(IntF(25), "degC")
    /\ n_stages' \in 1 .. MaxStages
    /\ PR_total' \in PurePressureRatios
    /\ actuator' = Actuator(mass_flow')
    /\ pc' = "idle"
    /\ UNCHANGED <<locals, results, entry_args, calls, memo>>

\* The state as main starts for the first time: nothing is built yet.
InitMain ==
    /\ mass_flow = Zero
    /\ inlet_pressure = Q_(Zero, "bar")
    /\ inlet_temperature = Q_(Zero, "degC")
    /\ n_stages = 1
    /\ PR_total = Zero
    /\ cilindros = <<>>
    /\ stage_mapping = <<>>
    /\ actuator = Actuator(Zero)
    /\ pc = "main"
    /\ m_dot = Zero
    /\ P_in = Zero
    /\ T_in = Zero
    /\ n = 0
    /\ PR_base = Zero
    /\ stage_details = <<>>
    /\ total_W_kW = Zero
    /\ cilindros_por_num = <<>>
    /\ stage = 0
    /\ clearance_avg = Zero
    /\ SACE_avg = Zero
    /\ VVCP_avg = Zero
    /\ results = <<>>
    /\ entry_args = <<>>
    /\ calls = 0
    /\ memo = <<>>

NextMain == Main \/ Call \/ StageStep \/ Return

SpecMain == InitMain /\ [][NextMain]_vars

----------------------------------------------------------------------------
\* Properties

\* The stage entries appended so far (all of them once the call has returned).
Entries == stage_details

Returned == pc = "done"

\* |x - y| <= k * 2^(-MantBits) * max(|x|, |y|), in exact arithmetic: x and y agree
\* to within k rounding errors.
Close(x, y, k) ==
    \/ x = y
    \/ /\ x.m # 0
       /\ y.m # 0
       /\ Abs(x.e - y.e) <= 2
       /\ LET e0 == IF x.e < y.e THEN x.e ELSE y.e
              X == x.m * Pow2(x.e - e0)
              Y == y.m * Pow2(y.e - e0)
              mx == IF Abs(X) > Abs(Y) THEN Abs(X) ELSE Abs(Y)
          IN  Abs(X - Y) * Pow2(MantBits) <= k * mx

\* C1: for a stage count n >= 1 the returned stage_details has exactly n entries, and
\* the entry at position i carries stage number i.
C1_ExactlyNStagesInOrder ==
    (Returned /\ n_stages >= 1) =>
        /\ Len(results[1].stage_details) = n_stages
        /\ \A i \in 1 .. Len(results[1].stage_details) :
               results[1].stage_details[i].stage = i

\* A call with the largest stage count has returned all its stages.
C1_Witness ==
    /\ Returned
    /\ n_stages = MaxStages
    /\ Len(results[1].stage_details) = MaxStages
    /\ results[1].stage_details[MaxStages].stage = MaxStages

\* C2 as stated: stage 1 starts at the supplied inlet pressure, the inlet pressure of
\* stage s+1 EQUALS the outlet pressure of stage s, every stage has the ratio PR_base,
\* and the outlet pressure of stage n is the inlet pressure times PR_base^n.
C2_ExactChain ==
    (Returned /\ n_stages >= 1) =>
        LET sd == results[1].stage_details
        IN  /\ sd[1].P_in_bar = results[1].inlet_pressure_bar
            /\ \A s \in 1 .. Len(sd) : sd[s].PR = PR_base
            /\ \A s \in 1 .. Len(sd) - 1 : sd[s + 1].P_in_bar = sd[s].P_out_bar
            /\ sd[Len(sd)].P_out_bar
                   = FDiv(FMul(P_in, FPow(PR_base, IntF(Len(sd)))), PA_PER_BAR)

\* C2, amended: as above, with the two chained pressures (and the last outlet pressure
\* and P_in * PR_base^n) equal to within 8 rounding errors instead of bit for bit.
C2_ChainWithinRounding ==
    (Returned /\ n_stages >= 1) =>
        LET sd == results[1].stage_details
        IN  /\ sd[1].P_in_bar = results[1].inlet_pressure_bar
            /\ \A s \in 1 .. Len(sd) : sd[s].PR = PR_base
            /\ \A s \in 1 .. Len(sd) - 1 : Close(sd[s + 1].P_in_bar, sd[s].P_out_bar, 8)
            /\ Close(sd[Len(sd)].P_out_bar,
                     FDiv(FMul(P_in, FPow(PR_base, IntF(Len(sd)))), PA_PER_BAR), 8)

\* A returned three-stage call whose third inlet pressure is not bit for bit the second
\* outlet pressure.
C2_Witness ==
    /\ Returned
    /\ n_stages >= 3
    /\ results[1].stage_details[3].P_in_bar # results[1].stage_details[2].P_out_bar
    /\ results[1].stage_details[3].P_in_bar.m > 0

\* C3: the isentropic efficiency of every stage entry is within [0.65, 0.92].
C3_EfficiencyWithinClamp ==
    \A i \in DOMAIN Entries :
        /\ ~FLt(Entries[i].isentropic_efficiency, ETA_BASE)
        /\ ~FLt(ETA_MAX, Entries[i].isentropic_efficiency)

\* The last stage of a returned call had an unclamped efficiency above 0.92 (from
\* SACE = 1000) and reports 0.92.
C3_Witness ==
    /\ Returned
    /\ Entries # <<>>
    /\ cilindros[1].SACE = IntF(1000)
    /\ FLt(ETA_MAX, EtaRaw(SACE_avg, VVCP_avg, clearance_avg))
    /\ Entries[Len(Entries)].isentropic_efficiency = ETA_MAX

\* The stage whose iteration has just completed.
Computed == pc \in {"loop", "done"} /\ stage >= 2

InvalidInput ==
    \/ mass_flow.m <= 0
    \/ ToPa(inlet_pressure).m <= 0
    \/ n_stages < 1
    \/ PR_total.m <= 0

\* The arithmetic mean of a field over the assigned cylinders that are in the list.
MeanPresent(field, assigned, cpn) ==
    LET sel == Selected(assigned, cpn)
    IN  FDiv(FSum([i \in DOMAIN sel |-> cpn[sel[i]][field]]), IntF(Len(sel)))

SomeAbsentSomePresent(assigned, cpn) ==
    /\ \E i \in DOMAIN assigned : assigned[i] \notin DOMAIN cpn
    /\ \E i \in DOMAIN assigned : assigned[i] \in DOMAIN cpn

\* C4: a stage whose assignment lists absent and present cylinders raises no error, and
\* its averaged clearance, SACE and VVCP are the means over the present cylinders.
C4_MeanOverPresentCylinders ==
    /\ pc # "raised"
    /\ (~InvalidInput /\ Computed
           /\ SomeAbsentSomePresent(Assigned(stage_mapping, stage - 1), cilindros_por_num))
        => LET assigned == Assigned(stage_mapping, stage - 1)
           IN  /\ clearance_avg = MeanPresent("clearance_pct", assigned, cilindros_por_num)
               /\ SACE_avg = MeanPresent("SACE", assigned, cilindros_por_num)
               /\ VVCP_avg = MeanPresent("VVCP_pct", assigned, cilindros_por_num)

\* C5: a call with a non-positive mass flow, inlet pressure or total pressure ratio, or
\* a stage count below 1, computes no stage and returns no result.
C5_InvalidInputRejected ==
    InvalidInput => (stage_details = <<>> /\ results = <<>>)

\* C6: the stages are processed in the order 1..n, stage 1 starts at the supplied inlet
\* temperature (as converted to kelvin), and the inlet temperature reported for stage
\* s+1 is the outlet temperature reported for stage s.
C6_TemperatureCarriedForward ==
    /\ pc = "loop" => stage = Len(Entries) + 1
    /\ \A i \in DOMAIN Entries :
           /\ Entries[i].stage = i
           /\ i = 1 => Entries[i].T_in_C = FSub(ToK(inlet_temperature), KELVIN_OFFSET)
           /\ i > 1 => Entries[i].T_in_C = Entries[i - 1].T_out_C

\* A returned call of two or more stages in which the first stage heated the gas.
C6_Witness ==
    /\ Returned
    /\ Len(Entries) >= 2
    /\ Entries[1].T_out_C # Entries[1].T_in_C
    /\ Entries[2].T_in_C = Entries[1].T_out_C

\* C7: a stage with no cylinders assigned (absent from the mapping, or mapped to an
\* empty list) does not make the call fail, is computed with all three averages zero,
\* and reports the efficiency 0.65.
C7_EmptyStageUsesZeroAverages ==
    /\ pc = "raised" => Assigned(stage_mapping, stage) # <<>>
    /\ \A i \in DOMAIN Entries :
           Assigned(stage_mapping, i) = <<>> => Entries[i].isentropic_efficiency = ETA_BASE
    /\ (Computed /\ Assigned(stage_mapping, stage - 1) = <<>>)
        => (clearance_avg = Zero /\ SACE_avg = Zero /\ VVCP_avg = Zero)

\* A returned call with a stage mapped to an empty list and a stage absent from the
\* mapping.
C7_Witness ==
    /\ Returned
    /\ \E i \in DOMAIN Entries :
           /\ i \in DOMAIN stage_mapping
           /\ stage_mapping[i] = <<>>
           /\ Entries[i].isentropic_efficiency = ETA_BASE
    /\ \E i \in DOMAIN Entries :
           /\ i \notin DOMAIN stage_mapping
           /\ Entries[i].isentropic_efficiency = ETA_BASE
    /\ Len(Entries) \notin DOMAIN stage_mapping
    /\ SACE_avg = Zero

\* C8: the total shaft power is the sum, in stage order, of the stages' shaft powers,
\* and the total and every stage's BHP is its kW times 1.34102.
C8_TotalIsSumOfStages ==
    Returned =>
        LET r == results[1]
            sd == results[1].stage_details
        IN  /\ r.total_shaft_power_kW = FSum([i \in DOMAIN sd |-> sd[i].shaft_power_kW])
            /\ r.total_shaft_power_BHP = FMul(r.total_shaft_power_kW, BHP_PER_KW)
            /\ \A i \in DOMAIN sd :
                   sd[i].shaft_power_BHP = FMul(sd[i].shaft_power_kW, BHP_PER_KW)

\* A returned call of two or more stages that each took power.
C8_Witness ==
    /\ Returned
    /\ Len(results[1].stage_details) >= 2
    /\ \A i \in DOMAIN results[1].stage_details :
           results[1].stage_details[i].shaft_power_kW.m > 0
    /\ results[1].total_shaft_power_kW # results[1].stage_details[1].shaft_power_kW

\* C10: the n_stages of the returned dict is the number of entries of its
\* stage_details, for every stage count passed.
C10_ReportedCountMatchesEntries ==
    Returned => results[1].n_stages = Len(results[1].stage_details)

\* C9: a call leaves the caller's cylinder list, stage mapping and actuator as they
\* were when it began, and returns what an earlier call with equal arguments returned,
\* whatever calls ran in between.
C9_PureFunction ==
    /\ pc \in {"loop", "done", "raised"} => <<cilindros, stage_mapping, actuator>> = entry_args
    /\ (Returned /\ memo # <<>> /\ memo[1].a = args) => results[1] = memo[1].r

\* The third call has returned, with the arguments of the remembered first call.
C9_Witness ==
    /\ Returned
    /\ memo # <<>>
    /\ memo[1].at = 1
    /\ calls = 3
    /\ memo[1].a = args
    /\ results[1] = memo[1].r
    /\ Len(results[1].stage_details) = 2

\* The cylinder numbers listed under key k of the mapping, as a set.
Listed(mapping, k) == {mapping[k][j] : j \in DOMAIN mapping[k]}

\* main has built the cylinders and the mapping (the form asks for one cylinder at least).
Built == cilindros # <<>>

\* C11: the stage mapping main builds and passes lists every cylinder number exactly
\* once, under the key equal to that cylinder's stage, and lists no number that is not
\* in the cylinder list; a cylinder whose stage is above the entered number of stages is
\* in the mapping, and no computed stage reads it.
C11_MappingListsEachCylinderOnce ==
    Built =>
        /\ \A i \in DOMAIN cilindros :
               /\ cilindros[i].stage \in DOMAIN stage_mapping
               /\ \A k \in DOMAIN stage_mapping :
                      Cardinality({j \in DOMAIN stage_mapping[k] :
                                      stage_mapping[k][j] = cilindros[i].cilindro_num})
                          = IF k = cilindros[i].stage THEN 1 ELSE 0
        /\ \A k \in DOMAIN stage_mapping :
               Listed(stage_mapping, k)
                   \subseteq {cilindros[i].cilindro_num : i \in DOMAIN cilindros}
        /\ pc \in {"loop", "done"} => entry_args[2] = stage_mapping
        /\ \A s \in DOMAIN Entries : \A i \in DOMAIN cilindros :
               cilindros[i].stage > n_stages =>
                   \A j \in DOMAIN Assigned(stage_mapping, Entries[s].stage) :
                       Assigned(stage_mapping, Entries[s].stage)[j]
                           # cilindros[i].cilindro_num

\* A call from main has returned all its stages; two cylinders share a computed stage
\* and a third sits on a stage above the entered number of stages.
C11_Witness ==
    /\ Returned
    /\ Len(Entries) = n_stages
    /\ Len(cilindros) >= 3
    /\ cilindros[1].stage = cilindros[2].stage
    /\ cilindros[1].stage <= n_stages
    /\ cilindros[3].stage > n_stages
    /\ cilindros[3].stage \in DOMAIN stage_mapping
    /\ Len(stage_mapping[cilindros[1].stage]) = 2

====
